---- MODULE Spec2Model ----
(***************************************************************************)
(* git-squash: model of src/main.rs.                                       *)
(*                                                                         *)
(* The program is one function, squash(branch_name), that drives a git     *)
(* repository through a fixed sequence of git2 calls.  The model keeps the *)
(* repository (commit objects, tree objects, local branches, HEAD, index,  *)
(* working tree) as state, and the position of a run of squash in pc; one  *)
(* action per git2 call (each `?` of the source is a point where the call  *)
(* may fail and the run returns Err(Git2)).  A git2 call is atomic: it     *)
(* either has its whole effect or fails without effect.                    *)
(*                                                                         *)
(* Between runs the user works on the repository (commit, merge, checkout, *)
(* edit, stage, restore); during a run the repository is touched by the    *)
(* run only (spec section 5: exclusive access).                            *)
(***************************************************************************)
EXTENDS Naturals, Sequences, FiniteSets

\* ------------------------------------------------------------------ bounds
\* Number of commit objects the object store may hold.
MaxCommits == 4
\* Commit timestamps are drawn from 1..MaxTime (clocks may be skewed, so a
\* child may carry an older time than its parent).
MaxTime == 2
\* A status list handed to is_dirty on its own holds up to MaxEntries
\* entries, each carrying up to MaxFlags status flags.
MaxEntries == 2
MaxFlags == 1

\* ------------------------------------------------------------- vocabulary
\* The two direct local branches and one symbolic reference under refs/heads.
DirectBranches == {"master", "feature"}
SymbolicBranches == {"sym"}
\* What the symbolic reference points at.
SymbolicTarget == "master"
\* What the user may type as the positional argument (main.rs:155-162).
BranchArgs == DirectBranches \cup SymbolicBranches \cup {"nope"}

\* Content of the one tracked path: 0 is "path absent", i > 0 is the version
\* written by commit i, Edited is an uncommitted version.
Edited == MaxCommits + 1
\* No oid: Option::None of Reference::target(), or a local not yet set.
NoOid == 0
\* No tree written yet.
NoTree == Edited + 1

VARIABLES
    commits,      \* object store: sequence of commit objects, oid = position
    trees,        \* object store: set of tree objects (by content)
    refs,         \* refs/heads/<name> for the direct branches -> oid
    HEAD,         \* name of the branch HEAD points at
    index,        \* content staged in the index
    wt,           \* content in the working tree
    conflicted,   \* the index holds an unresolved conflict for the path
    ignored,      \* an ignored, untracked file lies in the working tree
    pc,           \* position of the run of squash
    branch_name,  \* argument of squash
    statuses,     \* main.rs:86
    is_dirt,      \* main.rs:87
    head,         \* main.rs:93
    branch,       \* main.rs:95-100
    mb,           \* main.rs:102
    commits_to_squash, \* main.rs:112-113
    tree_oid,     \* main.rs:128
    result,       \* what squash returned
    out,          \* the line printed by println!
    pre,          \* the repository as it was when the run started
    ops,          \* the git2 calls the run has issued, in order
    chain         \* the commit made by the last rewrite, its target and the
                  \* number of runs since (counted up to 2), while nothing
                  \* but further runs against that target happened

repo == <<commits, trees, refs, HEAD, index, wt, conflicted, ignored>>
locals == <<branch_name, statuses, is_dirt, head, branch, mb,
           commits_to_squash, tree_oid>>
vars == <<commits, trees, refs, HEAD, index, wt, conflicted, ignored, pc,
          branch_name, statuses, is_dirt, head, branch, mb,
          commits_to_squash, tree_oid, result, out, pre, ops, chain>>

\* ------------------------------------------------------------ commit graph
Oids == 1..Len(commits)

ParentsOf(c) == {commits[c].parents[i] : i \in 1..Len(commits[c].parents)}

\* Commits reachable from c, c included (parents have smaller oids).
RECURSIVE Ancestors(_)
Ancestors(c) ==
    {c} \cup UNION {Ancestors(p) : p \in ParentsOf(c)}

\* Variant: the oldest common ancestors in place of the best ones.
MergeBases_Oldest(a, b) ==
    LET common == Ancestors(a) \cap Ancestors(b)
    IN {c \in common : ParentsOf(c) \cap common = {}}

\* git_merge_base: the best common ancestors; the call returns one of them.
MergeBases(a, b) ==
    LET common == Ancestors(a) \cap Ancestors(b)
    IN {c \in common : \A d \in common : d = c \/ c \notin Ancestors(d)}

\* Variant: the walk with the two tips exchanged, push(branch) and hide(head).
RevwalkSet_HideHead(h, m, b) ==
    (Ancestors(b) \cup Ancestors(m)) \ Ancestors(h)

\* Variant: the walk without revwalk.hide(branch).
RevwalkSet_NoHide(h, m, b) ==
    Ancestors(h) \cup Ancestors(m)

\* revwalk.push(head); revwalk.push(mb); revwalk.hide(branch)
RevwalkSet(h, m, b) ==
    (Ancestors(h) \cup Ancestors(m)) \ Ancestors(b)

\* Sort::TIME: newest commit time first.
TimeSorted(s) ==
    \A i \in 1..Len(s) : \A j \in 1..Len(s) :
        i < j => commits[s[i]].time >= commits[s[j]].time

RECURSIVE Perms(_)
Perms(S) ==
    IF S = {} THEN {<<>>}
    ELSE UNION {{<<x>> \o p : p \in Perms(S \ {x})} : x \in S}

\* Every order the walk may yield the set in (equal times: either order).
RevwalkOrders(S) == {s \in Perms(S) : TimeSorted(s)}

\* ------------------------------------------------------------------ status
\* Delta between two versions of the path.
Delta(a, b) ==
    IF a = b THEN "same"
    ELSE IF a = 0 THEN "new"
    ELSE IF b = 0 THEN "deleted"
    ELSE "modified"

HeadTree == commits[refs[HEAD]].tree

\* repo.statuses(None): one entry per path with a non-empty status; the
\* default options include untracked and ignored files and detect no renames.
TrackedStatus ==
    (IF conflicted THEN {"CONFLICTED"} ELSE {})
    \cup (CASE Delta(HeadTree, index) = "new" -> {"INDEX_NEW"}
            [] Delta(HeadTree, index) = "deleted" -> {"INDEX_DELETED"}
            [] Delta(HeadTree, index) = "modified" -> {"INDEX_MODIFIED"}
            [] OTHER -> {})
    \cup (CASE Delta(index, wt) = "new" -> {"WT_NEW"}
            [] Delta(index, wt) = "deleted" -> {"WT_DELETED"}
            [] Delta(index, wt) = "modified" -> {"WT_MODIFIED"}
            [] OTHER -> {})

Statuses ==
    (IF TrackedStatus = {} THEN <<>>
     ELSE <<[path |-> "f", status |-> TrackedStatus]>>)
    \o (IF ignored THEN <<[path |-> "ign", status |-> {"IGNORED"}]>>
        ELSE <<>>)

\* Variant: dirty_statuses without Status::CONFLICTED.
dirty_statuses_NoConflicted ==
    {"INDEX_NEW", "INDEX_MODIFIED", "INDEX_DELETED", "INDEX_RENAMED",
     "INDEX_TYPECHANGE", "WT_NEW", "WT_MODIFIED", "WT_DELETED",
     "WT_TYPECHANGE", "WT_RENAMED"}

dirty_statuses ==
    {"INDEX_NEW", "INDEX_MODIFIED", "INDEX_DELETED", "INDEX_RENAMED",
     "INDEX_TYPECHANGE", "WT_NEW", "WT_MODIFIED", "WT_DELETED",
     "WT_TYPECHANGE", "WT_RENAMED", "CONFLICTED"}

\* Variant: an entry counts only when it carries all of dirty_statuses
\* (Status::contains in place of Status::intersects).
is_dirty_Contains(sts) ==
    IF Len(sts) = 0 THEN FALSE
    ELSE \E i \in 1..Len(sts) : dirty_statuses \subseteq sts[i].status

is_dirty(sts) ==
    IF Len(sts) = 0 THEN FALSE
    ELSE \E i \in 1..Len(sts) :
            sts[i].status \cap dirty_statuses # {}

\* ------------------------------------------------------------------- state
Snapshot ==
    [commits |-> commits, trees |-> trees, refs |-> refs, HEAD |-> HEAD,
     index |-> index, wt |-> wt, conflicted |-> conflicted,
     ignored |-> ignored, statuses |-> Statuses]

NoSnapshot ==
    [commits |-> <<>>, trees |-> {}, refs |-> [b \in DirectBranches |-> NoOid],
     HEAD |-> "", index |-> 0, wt |-> 0, conflicted |-> FALSE,
     ignored |-> FALSE, statuses |-> <<>>]

NoChain == [oid |-> NoOid, target |-> "", reruns |-> 0]

\* Result<(), GitSquashError> of squash, or the panic of an unwrap.
NoResult == [tag |-> "none", arg |-> ""]
Ok == [tag |-> "Ok", arg |-> ""]
Err(kind, a) == [tag |-> kind, arg |-> a]
Panic == [tag |-> "panic", arg |-> ""]


\* A repository with one root commit (empty tree), both branches on it.
Init ==
    /\ commits = <<[parents |-> <<>>, tree |-> 0, message |-> 1, time |-> 1]>>
    /\ trees = {0}
    /\ refs = [b \in DirectBranches |-> 1]
    /\ HEAD = "master"
    /\ index = 0
    /\ wt = 0
    /\ conflicted = FALSE
    /\ ignored = FALSE
    /\ pc = "idle"
    /\ branch_name = ""
    /\ statuses = <<>>
    /\ is_dirt = FALSE
    /\ head = NoOid
    /\ branch = NoOid
    /\ mb = NoOid
    /\ commits_to_squash = <<>>
    /\ tree_oid = NoTree
    /\ result = NoResult
    /\ out = <<>>
    /\ pre = NoSnapshot
    /\ ops = <<>>
    /\ chain = NoChain

\* ------------------------------------------------- the user, between runs
Clean == ~is_dirty(Statuses)

\* Tips that can be merged into the current branch: the other branch, when
\* neither tip is an ancestor of the other.
Mergeable ==
    {refs[b] : b \in {x \in DirectBranches :
        /\ x # HEAD
        /\ refs[x] \notin Ancestors(refs[HEAD])
        /\ refs[HEAD] \notin Ancestors(refs[x])}}

\* git commit / git merge on the current branch: a new version of the path,
\* committed at time t with a message of its own.
UserCommit(t, second) ==
    LET n == Len(commits) + 1 IN
    /\ pc = "idle"
    /\ Clean
    /\ n < MaxCommits
    /\ commits' = Append(commits,
            [parents |-> <<refs[HEAD]>> \o second, tree |-> n,
             message |-> n, time |-> t])
    /\ trees' = trees \cup {n}
    /\ refs' = [refs EXCEPT ![HEAD] = n]
    /\ index' = n
    /\ wt' = n
    /\ chain' = NoChain
    /\ UNCHANGED <<HEAD, conflicted, ignored, pc, locals, result, out, pre,
                   ops>>

\* git checkout b
Checkout(b) ==
    /\ pc = "idle"
    /\ Clean
    /\ b # HEAD
    /\ HEAD' = b
    /\ index' = commits[refs[b]].tree
    /\ wt' = commits[refs[b]].tree
    /\ chain' = NoChain
    /\ UNCHANGED <<commits, trees, refs, conflicted, ignored, pc, locals,
                   result, out, pre, ops>>

\* The user edits (c = Edited) or deletes (c = 0) the path in the working tree.
Edit(c) ==
    /\ pc = "idle"
    /\ ~ignored
    /\ wt = index
    /\ c # wt
    /\ wt' = c
    /\ chain' = NoChain
    /\ UNCHANGED <<commits, trees, refs, HEAD, index, conflicted, ignored, pc,
                   locals, result, out, pre, ops>>

\* git add
Add ==
    /\ pc = "idle"
    /\ index # wt
    /\ index' = wt
    /\ chain' = NoChain
    /\ UNCHANGED <<commits, trees, refs, HEAD, wt, conflicted, ignored, pc,
                   locals, result, out, pre, ops>>

\* A merge or cherry-pick that stops on a conflict.
Conflict ==
    /\ pc = "idle"
    /\ ~ignored
    /\ Clean
    /\ conflicted' = TRUE
    /\ chain' = NoChain
    /\ UNCHANGED <<commits, trees, refs, HEAD, index, wt, ignored, pc, locals,
                   result, out, pre, ops>>

\* git reset --hard
Restore ==
    /\ pc = "idle"
    /\ ~Clean
    /\ index' = HeadTree
    /\ wt' = HeadTree
    /\ conflicted' = FALSE
    /\ chain' = NoChain
    /\ UNCHANGED <<commits, trees, refs, HEAD, ignored, pc, locals, result,
                   out, pre, ops>>

\* A build product matched by .gitignore appears or is removed.
ToggleIgnored ==
    /\ pc = "idle"
    /\ Clean
    /\ ignored' = ~ignored
    /\ chain' = NoChain
    /\ UNCHANGED <<commits, trees, refs, HEAD, index, wt, conflicted, pc,
                   locals, result, out, pre, ops>>

\* ------------------------------------------------------------ a run of squash
\* Variant: the tree written before the branch is reset.
StepAfter_WriteTreeFirst(p) ==
    CASE p = "refname_to_id" -> "find_branch"
      [] p = "find_branch" -> "merge_base"
      [] p = "merge_base" -> "revwalk"
      [] p = "revwalk" -> "find_commit_mb"
      [] p = "find_commit_mb" -> "write_tree"
      [] p = "write_tree" -> "reset"
      [] p = "reset" -> "find_commit_last"
      [] p = "find_commit_last" -> "signature"
      [] p = "signature" -> "commit"

\* Variant: repo.reset issued right after the walk, before find_commit(mb).
StepAfter_ResetEarly(p) ==
    CASE p = "refname_to_id" -> "find_branch"
      [] p = "find_branch" -> "merge_base"
      [] p = "merge_base" -> "revwalk"
      [] p = "revwalk" -> "reset"
      [] p = "reset" -> "find_commit_mb"
      [] p = "find_commit_mb" -> "write_tree"
      [] p = "write_tree" -> "find_commit_last"
      [] p = "find_commit_last" -> "signature"
      [] p = "signature" -> "commit"

\* The statement order of squash between its git2 calls (main.rs:93-143).
StepAfter(p) ==
    CASE p = "refname_to_id" -> "find_branch"
      [] p = "find_branch" -> "merge_base"
      [] p = "merge_base" -> "revwalk"
      [] p = "revwalk" -> "find_commit_mb"
      [] p = "find_commit_mb" -> "reset"
      [] p = "reset" -> "write_tree"
      [] p = "write_tree" -> "find_commit_last"
      [] p = "find_commit_last" -> "signature"
      [] p = "signature" -> "commit"

\* The git2 call `op` fails: the `?` returns Err(Git2(e)) from squash.
Fail(op) ==
    /\ pc' = "done"
    /\ result' = Err("Git2", op)
    /\ ops' = Append(ops, op)
    /\ UNCHANGED <<repo, locals, out, pre, chain>>

\* main.rs:159-163 and 82-91: main calls squash(branch) with the positional
\* argument; the repository is discovered, its status read and checked.
Main(b) ==
    /\ pc = "idle"
    /\ branch_name' = b
    /\ pre' = Snapshot
    /\ \/ /\ ops' = <<"discover", "statuses">>
          /\ statuses' = Statuses
          /\ is_dirt' = is_dirty(Statuses)
          /\ IF is_dirty(Statuses)
             THEN pc' = "done" /\ result' = Err("DirtyRepo", "")
             ELSE pc' = "refname_to_id" /\ UNCHANGED result
       \/ /\ ops' = <<"discover">>
          /\ pc' = "done"
          /\ result' = Err("Git2", "discover")
          /\ UNCHANGED <<statuses, is_dirt>>
       \/ /\ ops' = <<"discover", "statuses">>
          /\ pc' = "done"
          /\ result' = Err("Git2", "statuses")
          /\ UNCHANGED <<statuses, is_dirt>>
    /\ UNCHANGED <<repo, head, branch, mb, commits_to_squash, tree_oid, out,
                   chain>>

\* main.rs:93
RefnameToId ==
    /\ pc = "refname_to_id"
    /\ \/ /\ head' = refs[HEAD]
          /\ pc' = StepAfter(pc)
          /\ ops' = Append(ops, "refname_to_id")
          /\ UNCHANGED <<repo, branch_name, statuses, is_dirt, branch, mb,
                         commits_to_squash,
                         tree_oid, result, out, pre, chain>>
       \/ Fail("refname_to_id")

\* Variant: a symbolic reference resolved to the oid of what it points at.
Target_Follow(name) ==
    IF name \in DirectBranches THEN refs[name] ELSE refs[SymbolicTarget]

\* Reference::target(): the oid of a direct reference, None (NoOid) for a
\* symbolic one.
Target(name) == IF name \in DirectBranches THEN refs[name] ELSE NoOid

\* main.rs:95-100
FindBranch ==
    /\ pc = "find_branch"
    /\ \/ /\ branch_name \in DirectBranches \cup SymbolicBranches
          /\ ops' = Append(ops, "find_branch")
          /\ IF Target(branch_name) = NoOid
             THEN /\ pc' = "done"
                  /\ result' = Err("SymbolicRef", branch_name)
                  /\ UNCHANGED branch
             ELSE /\ pc' = StepAfter(pc)
                  /\ branch' = Target(branch_name)
                  /\ UNCHANGED result
          /\ UNCHANGED <<repo, branch_name, statuses, is_dirt, head, mb,
                         commits_to_squash,
                         tree_oid, out, pre, chain>>
       \/ Fail("find_branch")

\* main.rs:102
MergeBase ==
    /\ pc = "merge_base"
    /\ \/ /\ \E m \in MergeBases(branch, head) : mb' = m
          /\ pc' = StepAfter(pc)
          /\ ops' = Append(ops, "merge_base")
          /\ UNCHANGED <<repo, branch_name, statuses, is_dirt, head, branch,
                         commits_to_squash,
                         tree_oid, result, out, pre, chain>>
       \/ Fail("merge_base")

\* Variant: without the is_empty() return.
Decide_NoEmptyCheck(n) ==
    IF n = 1 THEN "single"
    ELSE "rewrite"

\* Variant: without the len() == 1 return.
Decide_NoSingleCheck(n) ==
    IF n = 0 THEN "empty"
    ELSE "rewrite"

\* main.rs:115-121: what squash does with a range of n commits.
Decide(n) ==
    IF n = 0 THEN "empty"
    ELSE IF n = 1 THEN "single"
    ELSE "rewrite"

\* main.rs:104-121
Revwalk ==
    /\ pc = "revwalk"
    /\ \/ /\ \E s \in RevwalkOrders(RevwalkSet(head, mb, branch)) :
                /\ commits_to_squash' = s
                /\ CASE Decide(Len(s)) = "empty" ->
                            /\ out' = <<"No commits to squash">>
                            /\ result' = Ok
                            /\ pc' = "done"
                     [] Decide(Len(s)) = "single" ->
                            /\ out' = <<"Only one commit to squash.">>
                            /\ result' = Ok
                            /\ pc' = "done"
                     [] OTHER ->
                            /\ pc' = StepAfter(pc)
                            /\ UNCHANGED <<result, out>>
          /\ ops' = Append(ops, "revwalk")
          /\ UNCHANGED <<repo, branch_name, statuses, is_dirt, head, branch, mb,
                         tree_oid, pre,
                         chain>>
       \/ Fail("revwalk")

\* main.rs:123
FindCommitMb ==
    /\ pc = "find_commit_mb"
    /\ \/ /\ pc' = StepAfter(pc)
          /\ ops' = Append(ops, "find_commit_mb")
          /\ UNCHANGED <<repo, locals, result, out, pre, chain>>
       \/ Fail("find_commit_mb")

\* Variant: ResetType::Mixed, which also resets the index to the commit.
SoftReset_Mixed(target) ==
    [refs |-> [refs EXCEPT ![HEAD] = target],
     index |-> commits[target].tree, wt |-> wt]

\* git_reset with ResetType::Soft: the branch HEAD points at moves to the
\* commit; index and working tree are left alone.
SoftReset(target) ==
    [refs |-> [refs EXCEPT ![HEAD] = target], index |-> index, wt |-> wt]

\* main.rs:125
Reset ==
    /\ pc = "reset"
    /\ \/ /\ refs' = SoftReset(mb).refs
          /\ index' = SoftReset(mb).index
          /\ wt' = SoftReset(mb).wt
          /\ ops' = Append(ops, "reset")
          /\ pc' = StepAfter(pc)
          /\ UNCHANGED <<commits, trees, HEAD, conflicted, ignored, locals,
                         result, out, pre, chain>>
       \/ Fail("reset")

\* Variant: the tree of the commit HEAD points at instead of the index.
WrittenTree_HeadTree == HeadTree

\* Index::write_tree: the tree with the content of the index.
WrittenTree == index

\* main.rs:128 (an index with conflicts cannot be written as a tree)
WriteTree ==
    /\ pc = "write_tree"
    /\ \/ /\ ~conflicted
          /\ tree_oid' = WrittenTree
          /\ trees' = trees \cup {WrittenTree}
          /\ ops' = Append(ops, "write_tree")
          /\ pc' = StepAfter(pc)
          /\ UNCHANGED <<commits, refs, HEAD, index, wt, conflicted, ignored,
                         branch_name, statuses, is_dirt, head, branch, mb,
                         commits_to_squash,
                         result, out, pre, chain>>
       \/ Fail("write_tree")

\* Variant: commits_to_squash.first().unwrap()
last_commit_First == commits_to_squash[1]

\* commits_to_squash.last().unwrap()
last_commit == commits_to_squash[Len(commits_to_squash)]

\* main.rs:132
FindCommitLast ==
    /\ pc = "find_commit_last"
    /\ \/ /\ Len(commits_to_squash) > 0
          /\ pc' = StepAfter(pc)
          /\ ops' = Append(ops, "find_commit_last")
          /\ UNCHANGED <<repo, locals, result, out, pre, chain>>
       \/ Fail("find_commit_last")

\* main.rs:135
Signature ==
    /\ pc = "signature"
    /\ \/ /\ pc' = StepAfter(pc)
          /\ ops' = Append(ops, "signature")
          /\ UNCHANGED <<repo, locals, result, out, pre, chain>>
       \/ Fail("signature")

\* Variant: the commit is given the merge base's tree.
CommitObject_MbTree(t) ==
    [parents |-> <<mb>>, tree |-> commits[mb].tree,
     message |-> commits[last_commit].message, time |-> t]

\* main.rs:136-143: the commit object: author and committer sig (its time
\* is the clock's), the message of last_commit, the written tree, the merge
\* base as only parent.
CommitObject(t) ==
    [parents |-> <<mb>>, tree |-> tree_oid,
     message |-> commits[last_commit].message, time |-> t]

\* Variant: the reference updated is the target branch.
UpdateRef_Target(n) == [refs EXCEPT ![branch_name] = n]

\* main.rs:137: update_ref Some("HEAD") moves the branch HEAD points at.
UpdateRef(n) == [refs EXCEPT ![HEAD] = n]

\* main.rs:136-145.  The arguments are evaluated in order.  First
\* last_commit.message().unwrap(): message() is None when the bytes of the
\* message are not valid UTF-8, and the unwrap panics; the model keeps a
\* message as an identifier and leaves open whether its bytes decode.  Then
\* find_tree, then the commit is created with the signature's time t and
\* HEAD's branch is moved to it; git_commit_create refuses when the first
\* parent is not the branch's tip.
Commit ==
    LET n == Len(commits) + 1 IN
    /\ pc = "commit"
    /\ \/ /\ pc' = "done"
          /\ result' = Panic
          /\ UNCHANGED <<repo, locals, out, pre, ops, chain>>
       \/ /\ tree_oid \in trees
          /\ refs[HEAD] = mb
          /\ n <= MaxCommits
          /\ \E t \in 1..MaxTime : commits' = Append(commits, CommitObject(t))
          /\ refs' = UpdateRef(n)
          /\ ops' = Append(ops, "commit")
          /\ pc' = "done"
          /\ result' = Ok
          /\ UNCHANGED <<trees, HEAD, index, wt, conflicted, ignored, locals,
                         out, pre, chain>>
       \/ Fail("commit")

\* The write operations among the git2 calls.
IsWrite(op) == op \in {"reset", "write_tree", "commit"}
Writes == SelectSeq(ops, IsWrite)
Rewritten == result = Ok /\ Len(Writes) = 3

\* The chain after a run that returned Ok: a first rewrite starts it, a
\* further run against the same target keeps it.
ChainAfter ==
    IF chain.oid # NoOid /\ chain.target = branch_name
    THEN [chain EXCEPT !.reruns = IF @ < 2 THEN @ + 1 ELSE @]
    ELSE IF Rewritten
    THEN [oid |-> refs[HEAD], target |-> branch_name, reruns |-> 0]
    ELSE NoChain

\* main.rs:163-166: main matches on the result (an error is printed as
\* "error: {}") and the process ends; the next invocation starts afresh.
MainReport ==
    /\ pc = "done"
    /\ pc' = "idle"
    /\ chain' = IF result.tag = "Ok" THEN ChainAfter
                ELSE IF commits = pre.commits /\ refs = pre.refs THEN chain
                ELSE NoChain
    /\ branch_name' = ""
    /\ statuses' = <<>>
    /\ is_dirt' = FALSE
    /\ head' = NoOid
    /\ branch' = NoOid
    /\ mb' = NoOid
    /\ commits_to_squash' = <<>>
    /\ tree_oid' = NoTree
    /\ result' = NoResult
    /\ out' = <<>>
    /\ pre' = NoSnapshot
    /\ ops' = <<>>
    /\ UNCHANGED repo

\* ---------------------------------------------------------- specification
User ==
    \/ /\ pc = "idle"
       /\ \E t \in 1..MaxTime :
             \E second \in {<<>>} \cup {<<c>> : c \in Mergeable} :
                UserCommit(t, second)
    \/ \E b \in DirectBranches : Checkout(b)
    \/ \E c \in {0, Edited} : Edit(c)
    \/ Add
    \/ Conflict
    \/ Restore
    \/ ToggleIgnored

\* A run of the program on a positional argument drawn from B.
RunOn(B) ==
    \/ \E b \in B : Main(b)
    \/ RefnameToId
    \/ FindBranch
    \/ MergeBase
    \/ Revwalk
    \/ FindCommitMb
    \/ Reset
    \/ WriteTree
    \/ FindCommitLast
    \/ Signature
    \/ Commit
    \/ MainReport

Run == RunOn(BranchArgs)

Next == User \/ Run

Spec == Init /\ [][Next]_vars

\* ------------------------------------------- every history, not only built
\* The range computation of main.rs:102-113 and the choice of main.rs:132
\* read nothing but the commit graph, the commit times and the two tips.
\* SpecGraph starts a run on every clean repository whose history is any
\* graph of fewer than MaxCommits commits: any number of roots, merges of
\* any two older commits, any commit times, the branches on any commits
\* that between them reach the whole history; the runs name a direct branch.
ParentLists(c) ==
    {<<>>} \cup {<<p>> : p \in 1..(c - 1)}
           \cup UNION {{<<p, q>> : q \in 1..(p - 1)} : p \in 1..(c - 1)}

Graphs(n) ==
    {[c \in 1..n |-> [parents |-> ps[c],
                      tree |-> IF c = 1 THEN 0 ELSE c,
                      message |-> c,
                      time |-> ts[c]]] :
        ps \in {f \in [1..n -> ParentLists(n)] :
                    \A c \in 1..n : f[c] \in ParentLists(c)},
        ts \in [1..n -> 1..MaxTime]}

InitGraph ==
    /\ \E n \in 1..(MaxCommits - 1) : commits \in Graphs(n)
    /\ trees = {commits[c].tree : c \in Oids}
    /\ refs \in [DirectBranches -> Oids]
    /\ Oids = UNION {Ancestors(refs[b]) : b \in DirectBranches}
    /\ HEAD = "feature"
    /\ index = HeadTree
    /\ wt = HeadTree
    /\ conflicted = FALSE
    /\ ignored = FALSE
    /\ pc = "idle"
    /\ branch_name = ""
    /\ statuses = <<>>
    /\ is_dirt = FALSE
    /\ head = NoOid
    /\ branch = NoOid
    /\ mb = NoOid
    /\ commits_to_squash = <<>>
    /\ tree_oid = NoTree
    /\ result = NoResult
    /\ out = <<>>
    /\ pre = NoSnapshot
    /\ ops = <<>>
    /\ chain = NoChain

SpecGraph == InitGraph /\ [][RunOn(DirectBranches)]_vars

\* -------------------------------------------------------- is_dirty alone
\* is_dirty (main.rs:54-80) reads nothing but the list it is handed.
\* SpecDirty hands it every list of up to MaxEntries entries whose status is
\* any set of up to MaxFlags of the flags of git2::Status, the dirty ones and
\* IGNORED (the empty set is Status::CURRENT).
StatusFlags ==
    {"INDEX_NEW", "INDEX_MODIFIED", "INDEX_DELETED", "INDEX_RENAMED",
     "INDEX_TYPECHANGE", "WT_NEW", "WT_MODIFIED", "WT_DELETED",
     "WT_TYPECHANGE", "WT_RENAMED", "IGNORED", "CONFLICTED"}

PathNames == <<"p1", "p2", "p3", "p4">>

EntryStatuses == {S \in SUBSET StatusFlags : Cardinality(S) <= MaxFlags}

StatusLists(n) ==
    {[i \in 1..n |-> [path |-> PathNames[i], status |-> f[i]]] :
        f \in [1..n -> EntryStatuses]}

InitDirty ==
    /\ commits = <<[parents |-> <<>>, tree |-> 0, message |-> 1, time |-> 1]>>
    /\ trees = {0}
    /\ refs = [b \in DirectBranches |-> 1]
    /\ HEAD = "master"
    /\ index = 0
    /\ wt = 0
    /\ conflicted = FALSE
    /\ ignored = FALSE
    /\ pc = "is_dirty"
    /\ branch_name = ""
    /\ \E n \in 0..MaxEntries : statuses \in StatusLists(n)
    /\ is_dirt = FALSE
    /\ head = NoOid
    /\ branch = NoOid
    /\ mb = NoOid
    /\ commits_to_squash = <<>>
    /\ tree_oid = NoTree
    /\ result = NoResult
    /\ out = <<>>
    /\ pre = [Snapshot EXCEPT !.statuses = statuses]
    /\ ops = <<>>
    /\ chain = NoChain

\* main.rs:87: let is_dirt = is_dirty(&statuses)
IsDirtyCall ==
    /\ pc = "is_dirty"
    /\ is_dirt' = is_dirty(statuses)
    /\ pc' = "checked"
    /\ UNCHANGED <<repo, branch_name, statuses, head, branch, mb,
                   commits_to_squash, tree_oid, result, out, pre, ops, chain>>

SpecDirty == InitDirty /\ [][IsDirtyCall]_vars

TypeOK ==
    /\ pc \in {"idle", "refname_to_id", "find_branch",
               "merge_base", "revwalk", "find_commit_mb", "reset",
               "write_tree", "find_commit_last", "signature", "commit",
               "done"}
    /\ \A c \in Oids : \A p \in ParentsOf(c) : p < c
    /\ \A b \in DirectBranches : refs[b] \in Oids
    /\ HEAD \in DirectBranches

\* ------------------------------------------------------------------ claims
\* The claims speak of the repository before and after a run: pre is the
\* repository when the run started.  They are stated on the repository, not
\* on the program's own helpers.
InRun == pc # "idle"
Done == pc = "done"

RepoUnchanged ==
    /\ commits = pre.commits
    /\ trees = pre.trees
    /\ refs = pre.refs
    /\ HEAD = pre.HEAD
    /\ index = pre.index
    /\ wt = pre.wt
    /\ conflicted = pre.conflicted
    /\ ignored = pre.ignored

\* The flags the spec counts as dirty (section 3 and 4.1).
DirtyFlags ==
    {"INDEX_NEW", "INDEX_MODIFIED", "INDEX_DELETED", "INDEX_RENAMED",
     "INDEX_TYPECHANGE", "WT_NEW", "WT_MODIFIED", "WT_DELETED",
     "WT_TYPECHANGE", "WT_RENAMED", "CONFLICTED"}

PreDirty ==
    \E i \in 1..Len(pre.statuses) :
        \E f \in DirtyFlags : f \in pre.statuses[i].status
PreClean == InRun /\ ~PreDirty

PreHead == pre.refs[pre.HEAD]
PreTarget == pre.refs[branch_name]
\* The commits unique to the current branch relative to the target.
PreRange == Ancestors(PreHead) \ Ancestors(PreTarget)
NewCommit == commits[Len(commits)]
NoStoreFailure == result.tag # "Git2"

\* C1: on a clean repository whose range holds N >= 2 commits, a run in which
\* no store operation fails creates exactly one commit, whose only parent is
\* the merge base of the target tip and the pre-run HEAD, and the current
\* branch points at it when the run ends.
C1_OneCommitOnMergeBase ==
    (/\ Done
     /\ PreClean
     /\ branch_name \in DirectBranches
     /\ Cardinality(PreRange) >= 2
     /\ NoStoreFailure)
    => /\ result = Ok
       /\ Len(commits) = Len(pre.commits) + 1
       /\ SubSeq(commits, 1, Len(pre.commits)) = pre.commits
       /\ Len(NewCommit.parents) = 1
       /\ NewCommit.parents[1] \in MergeBases(PreTarget, PreHead)
       /\ HEAD = pre.HEAD
       /\ refs = [pre.refs EXCEPT ![HEAD] = Len(commits)]

\* C2: in every successful rewrite the tree of the new commit is the tree of
\* the commit HEAD pointed at before the run, and the index is untouched.
C2_TreeIsPreHeadTree ==
    (Done /\ Rewritten)
    => /\ NewCommit.tree = pre.commits[PreHead].tree
       /\ index = pre.index
       /\ wt = pre.wt

C2_Witness ==
    /\ Done
    /\ Rewritten
    /\ NewCommit.tree # commits[NewCommit.parents[1]].tree

\* C3: in every successful rewrite the message of the new commit is the
\* message of a commit of the range with the oldest commit time, the last
\* element of the range ordered newest first.
C3_MessageOfOldest ==
    (Done /\ Rewritten)
    => /\ {commits_to_squash[i] : i \in 1..Len(commits_to_squash)} = PreRange
       /\ TimeSorted(commits_to_squash)
       /\ \E c \in PreRange :
            /\ c = commits_to_squash[Len(commits_to_squash)]
            /\ \A d \in PreRange : commits[c].time <= commits[d].time
            /\ NewCommit.message = commits[c].message
            /\ \A d \in PreRange :
                 commits[d].message # commits[c].message
                    => NewCommit.message # commits[d].message

C3_Witness ==
    /\ Done
    /\ Rewritten
    /\ commits[commits_to_squash[1]].time
          > commits[commits_to_squash[Len(commits_to_squash)]].time
    /\ NewCommit.message
          = commits[commits_to_squash[Len(commits_to_squash)]].message
    /\ NewCommit.message # commits[commits_to_squash[1]].message

\* C4: when a path carries a dirty flag the run fails with DirtyRepo (a failed
\* discover or status read apart), whatever the branch name, no branch is
\* resolved and the repository is as it was.
C4_DirtyFails ==
    (InRun /\ PreDirty)
    => /\ Done
       /\ result.tag \in {"DirtyRepo", "Git2"}
       /\ result.tag = "Git2" => result.arg \in {"discover", "statuses"}
       /\ ops \in {<<"discover">>, <<"discover", "statuses">>}
       /\ branch = NoOid
       /\ RepoUnchanged

C4_Witness ==
    /\ Done
    /\ PreDirty
    /\ result = Err("DirtyRepo", "")
    /\ branch_name = "nope"
    /\ pre.conflicted

\* C5: on a clean repository whose range is empty the run issues no write,
\* and (no store operation failing) reports "No commits to squash" and
\* returns Ok.
C5_EmptyRangeNoOp ==
    (/\ PreClean
     /\ branch_name \in DirectBranches
     /\ PreRange = {})
    => /\ RepoUnchanged
       /\ Writes = <<>>
       /\ (Done /\ NoStoreFailure)
            => (result = Ok /\ out = <<"No commits to squash">>)

C5_Witness ==
    /\ Done
    /\ PreClean
    /\ branch_name \in DirectBranches
    /\ PreRange = {}
    /\ PreHead # PreTarget
    /\ result = Ok
    /\ out = <<"No commits to squash">>

\* C6: on a clean repository whose range holds exactly one commit the run
\* issues no write, and (no store operation failing) reports "Only one commit
\* to squash." and returns Ok.
C6_SingleCommitNoOp ==
    (/\ PreClean
     /\ branch_name \in DirectBranches
     /\ Cardinality(PreRange) = 1)
    => /\ RepoUnchanged
       /\ Writes = <<>>
       /\ (Done /\ NoStoreFailure)
            => (result = Ok /\ out = <<"Only one commit to squash.">>)

C6_Witness ==
    /\ Done
    /\ PreClean
    /\ branch_name \in DirectBranches
    /\ Cardinality(PreRange) = 1
    /\ result = Ok
    /\ out = <<"Only one commit to squash.">>

\* C7 as stated: when the named branch is a symbolic reference the run fails
\* with SymbolicRef carrying the name.
C7_SymbolicAlwaysRejected ==
    (/\ Done
     /\ branch_name \in SymbolicBranches
     /\ NoStoreFailure)
    => result = Err("SymbolicRef", branch_name)

\* C7 amended: on a clean repository, when the named branch is a symbolic
\* reference, the run fails with SymbolicRef carrying the name, the reference
\* is not followed (no oid is taken from it, no merge base computed) and the
\* repository is as it was; on a dirty repository the run fails with
\* DirtyRepo before the branch is looked up.
C7_SymbolicRejectedWhenClean ==
    (InRun /\ branch_name \in SymbolicBranches)
    => /\ RepoUnchanged
       /\ Writes = <<>>
       /\ branch = NoOid
       /\ mb = NoOid
       /\ (Done /\ NoStoreFailure)
            => result = IF PreDirty THEN Err("DirtyRepo", "")
                        ELSE Err("SymbolicRef", branch_name)

C7_Witness ==
    /\ Done
    /\ PreClean
    /\ branch_name \in SymbolicBranches
    /\ result = Err("SymbolicRef", branch_name)
    /\ refs[SymbolicTarget] # refs[HEAD]

\* C8: after a successful rewrite, every further run against the same target
\* with nothing done in between (no store operation failing) returns Ok,
\* issues no write, creates no commit and leaves the branch at the commit of
\* the first run.
C8_Idempotent ==
    (/\ InRun
     /\ chain.oid # NoOid
     /\ chain.target = branch_name)
    => /\ RepoUnchanged
       /\ Writes = <<>>
       /\ refs[HEAD] = chain.oid
       /\ (Done /\ NoStoreFailure) => result = Ok

C8_Witness ==
    /\ Done
    /\ chain.oid # NoOid
    /\ chain.target = branch_name
    /\ chain.reruns = 2
    /\ result = Ok
    /\ refs[HEAD] = chain.oid

\* The reads squash issues before its first write.
ReadsBeforeWrite ==
    {"discover", "statuses", "refname_to_id", "find_branch", "merge_base",
     "revwalk", "find_commit_mb"}

\* C9: a failed read (discovery, status, resolution, merge base, graph walk,
\* lookup of the merge base commit) ends the run with no write issued and
\* the repository as it was; no call is issued twice and the failed call is
\* the last one.
C9_ReadFailureBeforeWrite ==
    (/\ Done
     /\ result.tag = "Git2"
     /\ result.arg \in ReadsBeforeWrite)
    => /\ Writes = <<>>
       /\ RepoUnchanged
       /\ ops[Len(ops)] = result.arg
       /\ \A i \in 1..Len(ops) : \A j \in 1..Len(ops) :
            i # j => ops[i] # ops[j]

C9_Witness ==
    /\ Done
    /\ result = Err("Git2", "find_commit_mb")
    /\ Cardinality(PreRange) >= 2

\* The repository after a failure between the soft reset and the commit: the
\* current branch at the merge base, nothing else changed.
LeftAtMergeBase ==
    /\ commits = pre.commits
    /\ trees = pre.trees
    /\ HEAD = pre.HEAD
    /\ \E m \in MergeBases(PreTarget, PreHead) :
          refs = [pre.refs EXCEPT ![HEAD] = m]
    /\ index = pre.index
    /\ wt = pre.wt
    /\ index = pre.commits[PreHead].tree
    /\ conflicted = pre.conflicted
    /\ ignored = pre.ignored

AfterReset ==
    \/ result = Panic
    \/ /\ result.tag = "Git2"
       /\ result.arg \in {"write_tree", "find_commit_last", "signature",
                          "commit"}

\* C10: a run that ends in an error leaves the repository as it was, or, when
\* the failing step comes after the soft reset, with the current branch at
\* the merge base, no new commit, and index and working tree as before.
C10_ErrorStates ==
    (Done /\ result # Ok)
    => IF AfterReset THEN LeftAtMergeBase /\ ~RepoUnchanged
       ELSE RepoUnchanged

C10_Witness ==
    /\ Done
    /\ result = Err("Git2", "signature")
    /\ LeftAtMergeBase
    /\ refs # pre.refs

\* The walk of main.rs:104-113 has been collected in this run.
RangeComputed ==
    /\ InRun
    /\ \E i \in 1..Len(ops) : ops[i] = "revwalk"
    /\ result # Err("Git2", "revwalk")

SquashRange == {commits_to_squash[i] : i \in 1..Len(commits_to_squash)}

\* C11: for every commit graph, the range the walk yields holds each commit
\* reachable from HEAD and not from the target tip exactly once and nothing
\* else; neither the merge base nor any ancestor of the target tip is in it.
C11_RangeIsHeadMinusTarget ==
    RangeComputed
    => /\ SquashRange = Ancestors(PreHead) \ Ancestors(PreTarget)
       /\ Len(commits_to_squash) = Cardinality(SquashRange)
       /\ mb \notin SquashRange
       /\ \A a \in Ancestors(PreTarget) : a \notin SquashRange

\* A range of two commits, one of them a merge, on top of the target tip.
C11_Witness ==
    /\ RangeComputed
    /\ Len(commits_to_squash) = 2
    /\ \E c \in SquashRange : Cardinality(ParentsOf(c)) = 2
    /\ mb = PreTarget
    /\ PreTarget \in Ancestors(PreHead)

\* C12: whenever the range holds N >= 2 commits, the commit whose message is
\* reused, the last of the time-sorted range, has the merge base among its
\* parents, whatever the commit times and the shape of the unique history.
C12_LastIsOnTopOfMergeBase ==
    (RangeComputed /\ Len(commits_to_squash) >= 2)
    => mb \in ParentsOf(commits_to_squash[Len(commits_to_squash)])

\* C13: is_dirty answers true exactly when some entry of the list it is
\* handed carries one of the eleven dirty flags, so the empty list and lists
\* whose entries carry only other flags are clean; the call changes neither
\* the list nor the repository.
C13_DirtyIffSomeDirtyFlag ==
    pc = "checked"
    => /\ is_dirt <=> PreDirty
       /\ Len(pre.statuses) = 0 => ~is_dirt
       /\ (\A i \in 1..Len(pre.statuses) :
              pre.statuses[i].status \subseteq {"IGNORED"}) => ~is_dirt
       /\ statuses = pre.statuses
       /\ RepoUnchanged

\* A list whose first entry is only ignored and whose second is renamed in
\* the working tree is reported dirty.
C13_Witness ==
    /\ pc = "checked"
    /\ Len(statuses) = 2
    /\ statuses[1].status = {"IGNORED"}
    /\ statuses[2].status = {"WT_RENAMED"}
    /\ is_dirt

\* C14: in every run, whatever its outcome, at most one commit is added to
\* the object store and every commit that existed before is still there
\* unaltered; HEAD stays on the same branch, and the target branch and every
\* branch other than the current one point where they pointed before.
C14_OnlyCurrentBranchMoves ==
    InRun
    => /\ Len(commits) \in {Len(pre.commits), Len(pre.commits) + 1}
       /\ SubSeq(commits, 1, Len(pre.commits)) = pre.commits
       /\ HEAD = pre.HEAD
       /\ \A b \in DirectBranches : b # pre.HEAD => refs[b] = pre.refs[b]
       /\ branch_name \in DirectBranches => refs[branch_name] = PreTarget

\* A rewrite has added its commit and moved the current branch onto it.
C14_Witness ==
    /\ Done
    /\ Rewritten
    /\ branch_name \in DirectBranches
    /\ Len(commits) = Len(pre.commits) + 1
    /\ refs[HEAD] = Len(commits)
    /\ PreHead # refs[HEAD]

\* C15: when a squash of N >= 2 commits has returned Ok, the index and the
\* working tree hold the tree of the new HEAD commit, no conflict is left and
\* no status entry carries a dirty flag; the run that follows it directly
\* finds the repository clean and does not end with DirtyRepo.
C15_CleanAfterSquash ==
    /\ (Done /\ Rewritten)
       => /\ index = commits[refs[HEAD]].tree
          /\ wt = commits[refs[HEAD]].tree
          /\ ~conflicted
          /\ \A i \in 1..Len(Statuses) :
                Statuses[i].status \cap DirtyFlags = {}
    /\ (InRun /\ chain.oid # NoOid)
       => /\ ~PreDirty
          /\ result.tag # "DirtyRepo"

\* The run directly after a rewrite has passed the clean check.
C15_Witness ==
    /\ pc = "refname_to_id"
    /\ chain.oid = refs[HEAD]
    /\ chain.reruns = 0
    /\ ops = <<"discover", "statuses">>
    /\ ~is_dirt

\* C16: when the pre-run HEAD commit is the target tip or one of its
\* ancestors, a run on the clean repository finds HEAD itself as merge base
\* and an empty range, writes nothing and, unless a store read fails, prints
\* "No commits to squash" and returns Ok; the current branch stays on the
\* commit it was on.
C16_NothingToSquashNoOp ==
    (/\ PreClean
     /\ branch_name \in DirectBranches
     /\ PreHead \in Ancestors(PreTarget))
    => /\ RepoUnchanged
       /\ refs[HEAD] = PreHead
       /\ Writes = <<>>
       /\ mb # NoOid => mb = PreHead
       /\ RangeComputed => commits_to_squash = <<>>
       /\ (Done /\ NoStoreFailure)
          => /\ result = Ok
             /\ out = <<"No commits to squash">>

\* The current branch lies strictly behind the target and the run has ended
\* as a no-op.
C16_Witness ==
    /\ Done
    /\ branch_name \in DirectBranches
    /\ PreHead \in Ancestors(PreTarget)
    /\ PreHead # PreTarget
    /\ mb = PreHead
    /\ result = Ok
    /\ out = <<"No commits to squash">>
    /\ refs[HEAD] = PreHead

\* The steps of squash after the two early returns of main.rs:115-121.
RewriteSteps ==
    {"find_commit_mb", "reset", "write_tree", "find_commit_last",
     "signature", "commit"}

\* C17: control stands at a step after the two early returns, and such a
\* step has been issued, only in a run whose collected range holds at least
\* two commits, so the range has a last element where it is unwrapped; the
\* writes issued so far are always a prefix of reset, write_tree, commit.
C17_RewriteOnlyFromTwoOrMore ==
    /\ pc \in RewriteSteps
       => RangeComputed /\ Len(commits_to_squash) >= 2
    /\ \A i \in 1..Len(ops) :
          ops[i] \in RewriteSteps
          => RangeComputed /\ Len(commits_to_squash) >= 2
    /\ Len(Writes) <= 3
    /\ Writes = SubSeq(<<"reset", "write_tree", "commit">>, 1, Len(Writes))

\* Control stands at the unwrap of the last element, after the reset and the
\* write of the tree.
C17_Witness ==
    /\ pc = "find_commit_last"
    /\ Len(commits_to_squash) >= 2
    /\ Writes = <<"reset", "write_tree">>
====
